---- MODULE Spec2Model ----
(***************************************************************************)
(* Model of hmalib/lambdas/actions/action_evaluator.py: the lambda that    *)
(* turns match messages into action and reaction messages, and of the      *)
(* opinion shown by hmalib/lambdas/api/matches.py.                         *)
(*                                                                         *)
(* Three specifications share the variables:                               *)
(*   Spec      the lambda_handler, one step per statement with an effect   *)
(*             (parse, one send_message, the gate), re-invoked for ever;   *)
(*   SpecEval  get_action_labels as a pure function of the match message   *)
(*             and of the contents of the config repository;               *)
(*   SpecOpinion  get_signal_details / get_opinion_from_tags on the tags   *)
(*             of one stored signal.                                       *)
(*                                                                         *)
(* get_action_rules, get_actions and threat_exchange_reacting_is_enabled   *)
(* are lookups in a config repository.  The source returns one sample      *)
(* value for each; the model reads the repository contents from variables  *)
(* fixed by Init, and the source's sample values are among the values Init *)
(* draws.  Everything computed from them is translated as written.         *)
(***************************************************************************)
EXTENDS Naturals, Sequences, FiniteSets

VARIABLES
    environ,          \* os.environ: the names of the variables that are set
    config,           \* lru_cache of ActionEvaluatorConfig.get: "none" | "cached"
    action_rules,     \* config repository: the ActionRule list
    actions,          \* config repository: the Action list
    reacting_enabled, \* config repository: the ThreatExchange reacting flag
    event,            \* event["Records"] of the running invocation
    pc,               \* position of the handler
    i,                \* index of the record being processed
    match_message,    \* match_message of the record being processed
    action_labels,    \* action_labels of the record being processed
    k,                \* index of the next action label to publish
    reaction_labels,  \* threat_exchange_reaction_labels of the record
    r,                \* index of the next reaction label to publish
    actions_queue,    \* messages sent to ACTIONS_QUEUE_URL by this invocation
    reactions_queue,  \* messages sent to REACTIONS_QUEUE_URL by this invocation
    result,           \* what the invocation returned or raised
    status,           \* history: per record, Received | Done | Failed
    gate_checked,     \* history: records whose reaction gate was evaluated
    failed_sends,     \* history: <<record, queue, label>> of failed sends
    summaries,        \* history: <<outcome class, result>> of ended invocations
    tags,             \* matches API: metadata.tags of the stored signal
    detail            \* matches API: the MatchDetailMetadata built from it

vars == <<environ, config, action_rules, actions, reacting_enabled, event, pc,
          i, match_message, action_labels, k, reaction_labels, r,
          actions_queue, reactions_queue, result, status, gate_checked,
          failed_sends, summaries, tags, detail>>

(***************************************************************************)
(* Bounds                                                                  *)
(***************************************************************************)
MaxBatch == 2         \* records per invocation (Spec)
MaxHandlerRules == 2  \* rules in the repository (Spec)
MaxRules == 3         \* rules in the repository (SpecEval)
MaxTags == 3          \* tags of a stored signal (SpecOpinion)

(***************************************************************************)
(* Values                                                                  *)
(***************************************************************************)
Range(s) == {s[n] : n \in 1..Len(s)}

Contains(s, x) == x \in Range(s)

SeqsUpTo(S, n) == UNION {[1..len -> S] : len \in 0..n}

\* Label("Collaboration", "12345")
CollaborationLabel == "Collaboration:12345"

ActionRule(action_label, must_have_labels, must_not_have_labels) ==
    [action_label |-> action_label,
     must_have_labels |-> must_have_labels,
     must_not_have_labels |-> must_not_have_labels]

Action(action_label, priority, superseded_by_action_label) ==
    [action_label |-> action_label,
     priority |-> priority,
     superseded_by_action_label |-> superseded_by_action_label]

\* MatchMessage(content_key, content_hash, match_labels); the hash is never read
MatchMessage(content_key, labels) ==
    [valid |-> TRUE, content_key |-> content_key, labels |-> labels]

\* an sqs_record whose body json.loads or MatchMessage.from_aws_message rejects
MalformedRecord(content_key) ==
    [valid |-> FALSE, content_key |-> content_key, labels |-> <<>>]

NoMessage == [valid |-> FALSE, content_key |-> 0, labels |-> <<>>]

\* the value get_action_rules returns in the source
SampleActionRules ==
    <<ActionRule("EnqueueForReview", {CollaborationLabel}, {})>>

\* the value get_actions returns in the source
SampleActions ==
    <<Action("ENQUEUE_FOR_REVIEW", 1, {"A_MORE_IMPORTANT_ACTION"})>>

(***************************************************************************)
(* Config repository and reaction stubs                                    *)
(***************************************************************************)
get_action_rules == action_rules

get_actions == actions

threat_exchange_reacting_is_enabled(m) == reacting_enabled

get_threat_exchange_reaction_labels(m, labels) == <<"SAW_THIS_TOO">>

(***************************************************************************)
(* Rule evaluation                                                         *)
(***************************************************************************)
action_rule_applies_to_match_message(action_rule, m) == TRUE

\* the condition of the if in the loop of get_action_labels, without the
\* "not already in action_labels" conjunct
ShouldAppend_NoDedup(action_rule, m, acc) ==
    action_rule_applies_to_match_message(action_rule, m)

\* the condition of the if in the loop of get_action_labels
ShouldAppend(action_rule, m, acc) ==
    /\ action_rule_applies_to_match_message(action_rule, m)
    /\ ~Contains(acc, action_rule.action_label)

\* the for loop of get_action_labels over the rules still to visit
RECURSIVE AppendApplicable(_, _, _)
AppendApplicable(rules, m, acc) ==
    IF rules = <<>> THEN acc
    ELSE AppendApplicable(Tail(rules), m,
            IF ShouldAppend(Head(rules), m, acc)
            THEN Append(acc, Head(rules).action_label)
            ELSE acc)

\* action_labels as it is when the loop of get_action_labels ends
RawActionLabels(m) == AppendApplicable(get_action_rules, m, <<>>)

\* a resolver that drops the last label whatever the actions say
remove_superseded_actions_DropLast(labels) ==
    IF labels = <<>> THEN labels ELSE SubSeq(labels, 1, Len(labels) - 1)

remove_superseded_actions(labels) == labels

get_action_labels(m) == remove_superseded_actions(RawActionLabels(m))

(***************************************************************************)
(* api/matches.py: opinion of a signal from its tags                       *)
(***************************************************************************)
\* ThreatDescriptor.TRUE_POSITIVE, .FALSE_POSITIVE, .DISPUTED
TRUE_POSITIVE == "true_positive"

FALSE_POSITIVE == "false_positive"

DISPUTED == "disputed"

\* OpinionString(...).value
OpinionValue(opinion) ==
    CASE opinion = "TP" -> "True Positive"
      [] opinion = "FP" -> "False Positive"
      [] opinion = "DISPUTED" -> "Unknown (Disputed)"
      [] opinion = "UNKNOWN" -> "Unknown"

\* the false-positive tag is looked for before the true-positive tag
get_opinion_from_tags_FPFirst(tag_list) ==
    IF Contains(tag_list, FALSE_POSITIVE) THEN "FP"
    ELSE IF Contains(tag_list, TRUE_POSITIVE) THEN "TP"
    ELSE IF Contains(tag_list, DISPUTED) THEN "DISPUTED"
    ELSE "UNKNOWN"

get_opinion_from_tags(tag_list) ==
    IF Contains(tag_list, TRUE_POSITIVE) THEN "TP"
    ELSE IF Contains(tag_list, FALSE_POSITIVE) THEN "FP"
    ELSE IF Contains(tag_list, DISPUTED) THEN "DISPUTED"
    ELSE "UNKNOWN"

\* the MatchDetailMetadata get_signal_details builds for one stored signal
MatchDetailMetadata(tag_list) ==
    [tags |-> SelectSeq(tag_list,
                 LAMBDA tag : tag \notin {TRUE_POSITIVE, FALSE_POSITIVE, DISPUTED}),
     opinion |-> OpinionValue(get_opinion_from_tags(tag_list))]

NoDetail == [tags |-> <<>>, opinion |-> "none"]

(***************************************************************************)
(* lambda_handler                                                          *)
(***************************************************************************)
ActionMessage(m, action_label) ==
    [kind |-> "ActionMessage", content_key |-> m.content_key,
     label |-> action_label]

ReactionMessage(m, reaction_label) ==
    [kind |-> "ReactionMessage", content_key |-> m.content_key,
     label |-> reaction_label]

RequiredEnviron == {"ACTIONS_QUEUE_URL", "REACTIONS_QUEUE_URL"}

\* ActionEvaluatorConfig.get reads ACTIONS_QUEUE_URL only
ConfigAvailable_ActionsOnly ==
    config = "cached" \/ "ACTIONS_QUEUE_URL" \in environ

\* ActionEvaluatorConfig.get succeeds: a cached value, or both variables set
ConfigAvailable == config = "cached" \/ RequiredEnviron \subseteq environ

\* the reaction labels the handler goes on to publish, gate ignored
ReactionsToSend_NoGate(m, labels) ==
    get_threat_exchange_reaction_labels(m, labels)

\* the reaction labels the handler goes on to publish for a record
ReactionsToSend(m, labels) ==
    IF threat_exchange_reacting_is_enabled(m)
    THEN get_threat_exchange_reaction_labels(m, labels)
    ELSE <<>>

\* the gate is reached before the loop over the action labels has ended
ActionsLoopDone_Early(labels, next) == TRUE

\* the for loop over action_labels stops one label short
ActionsLoopDone_OneShort(labels, next) == next >= Len(labels)

\* the for loop over action_labels has published every label
ActionsLoopDone(labels, next) == next > Len(labels)

\* outcome class of a batch from the per-record outcomes
OutcomeClass(st) ==
    IF \A n \in 1..Len(st) : st[n] = "Done" THEN "fully_succeeded"
    ELSE IF \A n \in 1..Len(st) : st[n] # "Done" THEN "fully_failed"
    ELSE "partially_succeeded"

Ended == pc \in {"returned", "raised"}

\* the batches an invocation may receive: record n carries content key n
Batches ==
    {[n \in 1..Len(v) |->
        IF v[n] THEN MatchMessage(n, <<CollaborationLabel>>)
        ELSE MalformedRecord(n)] : v \in SeqsUpTo(BOOLEAN, MaxBatch)}

\* lambda_handler is called: config = ActionEvaluatorConfig.get()
Invoke ==
    /\ pc = "idle" \/ Ended
    /\ ConfigAvailable
    /\ \E ev \in Batches :
        /\ event' = ev
        /\ status' = [n \in 1..Len(ev) |-> "Received"]
    /\ config' = "cached"
    /\ pc' = "record"
    /\ i' = 1
    /\ match_message' = NoMessage
    /\ action_labels' = <<>>
    /\ k' = 1
    /\ reaction_labels' = <<>>
    /\ r' = 1
    /\ actions_queue' = <<>>
    /\ reactions_queue' = <<>>
    /\ result' = "none"
    /\ gate_checked' = {}
    /\ failed_sends' = {}
    /\ UNCHANGED <<tags, detail>>
    /\ UNCHANGED <<environ, action_rules, actions, reacting_enabled, summaries>>

\* lambda_handler is called and os.environ[...] raises KeyError
InvokeConfigMissing ==
    /\ pc = "idle" \/ Ended
    /\ ~ConfigAvailable
    /\ \E ev \in Batches :
        /\ event' = ev
        /\ status' = [n \in 1..Len(ev) |-> "Received"]
    /\ pc' = "raised"
    /\ result' = "KeyError"
    /\ i' = 1
    /\ match_message' = NoMessage
    /\ action_labels' = <<>>
    /\ k' = 1
    /\ reaction_labels' = <<>>
    /\ r' = 1
    /\ actions_queue' = <<>>
    /\ reactions_queue' = <<>>
    /\ gate_checked' = {}
    /\ failed_sends' = {}
    /\ UNCHANGED <<tags, detail>>
    /\ UNCHANGED <<environ, config, action_rules, actions, reacting_enabled,
                   summaries>>

\* an exception leaves lambda_handler while record i is processed
Raise(exception) ==
    /\ pc' = "raised"
    /\ result' = exception
    /\ status' = [status EXCEPT ![i] = "Failed"]
    /\ summaries' = summaries \cup {<<OutcomeClass(status'), exception>>}

\* lines 57-62: the record parses, its action labels are computed
ParseRecord ==
    /\ pc = "record"
    /\ i <= Len(event)
    /\ event[i].valid
    /\ match_message' = event[i]
    /\ action_labels' = get_action_labels(event[i])
    /\ k' = 1
    /\ pc' = "actions"
    /\ UNCHANGED <<tags, detail>>
    /\ UNCHANGED <<environ, config, action_rules, actions, reacting_enabled,
                   event, i, reaction_labels, r, actions_queue,
                   reactions_queue, result, status, gate_checked,
                   failed_sends, summaries>>

\* lines 57-58: json.loads or MatchMessage.from_aws_message raises
ParseRecordFails ==
    /\ pc = "record"
    /\ i <= Len(event)
    /\ ~event[i].valid
    /\ Raise("MalformedInput")
    /\ UNCHANGED <<tags, detail>>
    /\ UNCHANGED <<environ, config, action_rules, actions, reacting_enabled,
                   event, i, match_message, action_labels, k,
                   reaction_labels, r, actions_queue, reactions_queue,
                   gate_checked, failed_sends>>

\* lines 63-70: one action message is sent
SendActionMessage ==
    /\ pc = "actions"
    /\ ~ActionsLoopDone(action_labels, k)
    /\ k <= Len(action_labels)
    /\ actions_queue' =
          Append(actions_queue, ActionMessage(match_message, action_labels[k]))
    /\ k' = k + 1
    /\ UNCHANGED <<tags, detail>>
    /\ UNCHANGED <<environ, config, action_rules, actions, reacting_enabled,
                   event, pc, i, match_message, action_labels,
                   reaction_labels, r, reactions_queue, result, status,
                   gate_checked, failed_sends, summaries>>

\* sqs_client.send_message raises and the record's action messages are
\* taken back from the queue
SendActionMessageFails_Rollback ==
    /\ pc = "actions"
    /\ ~ActionsLoopDone(action_labels, k)
    /\ k <= Len(action_labels)
    /\ failed_sends' = failed_sends \cup {<<i, "actions", action_labels[k]>>}
    /\ actions_queue' =
          SelectSeq(actions_queue, LAMBDA msg : msg.content_key # i)
    /\ Raise("PublishFailure")
    /\ UNCHANGED <<tags, detail>>
    /\ UNCHANGED <<environ, config, action_rules, actions, reacting_enabled,
                   event, i, match_message, action_labels, k,
                   reaction_labels, r, reactions_queue, gate_checked>>

\* lines 67-70: sqs_client.send_message raises
SendActionMessageFails ==
    /\ pc = "actions"
    /\ ~ActionsLoopDone(action_labels, k)
    /\ k <= Len(action_labels)
    /\ failed_sends' = failed_sends \cup {<<i, "actions", action_labels[k]>>}
    /\ Raise("PublishFailure")
    /\ UNCHANGED <<tags, detail>>
    /\ UNCHANGED <<environ, config, action_rules, actions, reacting_enabled,
                   event, i, match_message, action_labels, k,
                   reaction_labels, r, actions_queue, reactions_queue,
                   gate_checked>>

\* lines 72-76: the gate is evaluated, then the reaction labels are computed
CheckReactingEnabled ==
    /\ pc = "actions"
    /\ ActionsLoopDone(action_labels, k)
    /\ gate_checked' = gate_checked \cup {i}
    /\ reaction_labels' = ReactionsToSend(match_message, action_labels)
    /\ r' = 1
    /\ pc' = "reactions"
    /\ UNCHANGED <<tags, detail>>
    /\ UNCHANGED <<environ, config, action_rules, actions, reacting_enabled,
                   event, i, match_message, action_labels, k, actions_queue,
                   reactions_queue, result, status, failed_sends, summaries>>

\* one reaction message is sent with QueueUrl=config.actions_queue_url
SendReactionMessage_WrongQueue ==
    /\ pc = "reactions"
    /\ r <= Len(reaction_labels)
    /\ actions_queue' =
          Append(actions_queue,
                 ReactionMessage(match_message, reaction_labels[r]))
    /\ r' = r + 1
    /\ UNCHANGED <<tags, detail>>
    /\ UNCHANGED <<environ, config, action_rules, actions, reacting_enabled,
                   event, pc, i, match_message, action_labels, k,
                   reaction_labels, reactions_queue, result, status,
                   gate_checked, failed_sends, summaries>>

\* lines 77-88: one reaction message is sent
SendReactionMessage ==
    /\ pc = "reactions"
    /\ r <= Len(reaction_labels)
    /\ reactions_queue' =
          Append(reactions_queue,
                 ReactionMessage(match_message, reaction_labels[r]))
    /\ r' = r + 1
    /\ UNCHANGED <<tags, detail>>
    /\ UNCHANGED <<environ, config, action_rules, actions, reacting_enabled,
                   event, pc, i, match_message, action_labels, k,
                   reaction_labels, actions_queue, result, status,
                   gate_checked, failed_sends, summaries>>

\* lines 83-88: sqs_client.send_message raises
SendReactionMessageFails ==
    /\ pc = "reactions"
    /\ r <= Len(reaction_labels)
    /\ failed_sends' =
          failed_sends \cup {<<i, "reactions", reaction_labels[r]>>}
    /\ Raise("PublishFailure")
    /\ UNCHANGED <<tags, detail>>
    /\ UNCHANGED <<environ, config, action_rules, actions, reacting_enabled,
                   event, i, match_message, action_labels, k,
                   reaction_labels, r, actions_queue, reactions_queue,
                   gate_checked>>

\* the loop moves to the next record while record i still has action
\* labels to publish
NextRecord_Early ==
    /\ pc = "actions"
    /\ status' = [status EXCEPT ![i] = "Done"]
    /\ i' = i + 1
    /\ pc' = "record"
    /\ UNCHANGED <<tags, detail>>
    /\ UNCHANGED <<environ, config, action_rules, actions, reacting_enabled,
                   event, match_message, action_labels, k, reaction_labels,
                   r, actions_queue, reactions_queue, result, gate_checked,
                   failed_sends, summaries>>

\* line 55: the body of the for loop has ended for record i
NextRecord ==
    /\ pc = "reactions"
    /\ r > Len(reaction_labels)
    /\ status' = [status EXCEPT ![i] = "Done"]
    /\ i' = i + 1
    /\ pc' = "record"
    /\ UNCHANGED <<tags, detail>>
    /\ UNCHANGED <<environ, config, action_rules, actions, reacting_enabled,
                   event, match_message, action_labels, k, reaction_labels,
                   r, actions_queue, reactions_queue, result, gate_checked,
                   failed_sends, summaries>>

\* line 90: return {"evaluation_completed": "true"}
Return ==
    /\ pc = "record"
    /\ i > Len(event)
    /\ pc' = "returned"
    /\ result' = "evaluation_completed:true"
    /\ summaries' =
          summaries \cup {<<OutcomeClass(status), "evaluation_completed:true">>}
    /\ UNCHANGED <<tags, detail>>
    /\ UNCHANGED <<environ, config, action_rules, actions, reacting_enabled,
                   event, i, match_message, action_labels, k,
                   reaction_labels, r, actions_queue, reactions_queue,
                   status, gate_checked, failed_sends>>

(***************************************************************************)
(* Spec: the handler                                                       *)
(***************************************************************************)
HandlerRules ==
    {ActionRule("EnqueueForReview", {CollaborationLabel}, {}),
     ActionRule("A", {CollaborationLabel}, {}),
     ActionRule("B", {CollaborationLabel}, {})}

HandlerActions ==
    {SampleActions, <<Action("A", 1, {"B"}), Action("B", 2, {})>>}

Idle ==
    /\ config = "none"
    /\ event = <<>>
    /\ i = 1
    /\ match_message = NoMessage
    /\ action_labels = <<>>
    /\ k = 1
    /\ reaction_labels = <<>>
    /\ r = 1
    /\ actions_queue = <<>>
    /\ reactions_queue = <<>>
    /\ result = "none"
    /\ status = <<>>
    /\ gate_checked = {}
    /\ failed_sends = {}
    /\ summaries = {}

Init ==
    /\ environ \in SUBSET RequiredEnviron
    /\ action_rules \in SeqsUpTo(HandlerRules, MaxHandlerRules)
    /\ actions \in HandlerActions
    /\ reacting_enabled \in BOOLEAN
    /\ pc = "idle"
    /\ Idle
    /\ tags = <<>>
    /\ detail = NoDetail

Next ==
    \/ Invoke
    \/ InvokeConfigMissing
    \/ ParseRecord
    \/ ParseRecordFails
    \/ SendActionMessage
    \/ SendActionMessageFails
    \/ CheckReactingEnabled
    \/ SendReactionMessage
    \/ SendReactionMessageFails
    \/ NextRecord
    \/ Return

Spec == Init /\ [][Next]_vars

(***************************************************************************)
(* SpecEval: get_action_labels on its own                                  *)
(***************************************************************************)
EvalActionLabels == {"A", "B", "C"}

\* a rule asks for the collaboration label, forbids it, or both
EvalRules ==
    {ActionRule(l, p[1], p[2]) :
        l \in EvalActionLabels,
        p \in {<<{CollaborationLabel}, {}>>,
               <<{}, {CollaborationLabel}>>,
               <<{CollaborationLabel}, {CollaborationLabel}>>}}

ChainActions ==
    <<Action("A", 1, {"B"}), Action("B", 2, {"C"}), Action("C", 3, {})>>

MutualActions == <<Action("A", 1, {"B"}), Action("B", 2, {"A"})>>

EvalActions ==
    {SampleActions, <<>>, <<Action("A", 1, {"B"}), Action("B", 2, {})>>,
     ChainActions, MutualActions}

EvalMatches ==
    {MatchMessage(1, <<>>), MatchMessage(1, <<CollaborationLabel>>),
     MatchMessage(1, <<"Other:1", CollaborationLabel>>)}

InitEval ==
    /\ environ = RequiredEnviron
    /\ action_rules \in SeqsUpTo(EvalRules, MaxRules) \cup {SampleActionRules}
    /\ actions \in EvalActions
    /\ reacting_enabled = TRUE
    /\ config = "none"
    /\ event = <<>>
    /\ i = 1
    /\ match_message \in EvalMatches
    /\ action_labels = <<>>
    /\ k = 1
    /\ reaction_labels = <<>>
    /\ r = 1
    /\ actions_queue = <<>>
    /\ reactions_queue = <<>>
    /\ result = "none"
    /\ status = <<>>
    /\ gate_checked = {}
    /\ failed_sends = {}
    /\ summaries = {}
    /\ tags = <<>>
    /\ detail = NoDetail
    /\ pc = "evaluate"

\* line 62: action_labels = get_action_labels(match_message)
Evaluate ==
    /\ pc = "evaluate"
    /\ action_labels' = get_action_labels(match_message)
    /\ pc' = "evaluated"
    /\ UNCHANGED <<tags, detail>>
    /\ UNCHANGED <<environ, config, action_rules, actions, reacting_enabled,
                   event, i, match_message, k, reaction_labels, r,
                   actions_queue, reactions_queue, result, status,
                   gate_checked, failed_sends, summaries>>

NextEval == Evaluate

SpecEval == InitEval /\ [][NextEval]_vars

(***************************************************************************)
(* Vocabulary of the properties                                            *)
(***************************************************************************)
MatchLabels(m) == Range(m.labels)

\* the match has every must-have label and no must-not-have label
LabelsSatisfyRule(rule, m) ==
    /\ rule.must_have_labels \subseteq MatchLabels(m)
    /\ rule.must_not_have_labels \cap MatchLabels(m) = {}

NoDuplicates(s) == \A a, b \in 1..Len(s) : s[a] = s[b] => a = b

\* the labels the Action of label x lists
SupersededSetOf(x) ==
    UNION {a.superseded_by_action_label :
              a \in {b \in Range(get_actions) : b.action_label = x}}

RECURSIVE IsSubsequence(_, _)
IsSubsequence(s, t) ==
    IF s = <<>> THEN TRUE
    ELSE IF t = <<>> THEN FALSE
    ELSE IF Head(s) = Head(t) THEN IsSubsequence(Tail(s), Tail(t))
    ELSE IsSubsequence(s, Tail(t))

\* the messages of a queue that carry content key n, in queue order
RECURSIVE MessagesOf(_, _)
MessagesOf(queue, n) ==
    IF queue = <<>> THEN <<>>
    ELSE IF Head(queue).content_key = n
         THEN <<Head(queue)>> \o MessagesOf(Tail(queue), n)
         ELSE MessagesOf(Tail(queue), n)

ExpectedActionMessages(m) ==
    [n \in 1..Len(get_action_labels(m)) |->
        ActionMessage(m, get_action_labels(m)[n])]

(***************************************************************************)
(* C1 - C10                                                                *)
(***************************************************************************)

\* C1: a label is in the result of get_action_labels exactly when some rule
\* carrying it has all its MustHaveLabels and none of its MustNotHaveLabels
\* among the labels of the match.
C1_RuleContributesIffLabelsSatisfy ==
    pc = "evaluated" =>
        \A l \in EvalActionLabels \cup {"EnqueueForReview"} :
            Contains(action_labels, l) <=>
                \E n \in 1..Len(action_rules) :
                    /\ action_rules[n].action_label = l
                    /\ LabelsSatisfyRule(action_rules[n], match_message)

\* C2: the sequence get_action_labels returns holds no label twice.
C2_NoDuplicateActionLabels ==
    pc = "evaluated" => NoDuplicates(action_labels)

\* C2 witness: two rules with the same label both applied to the match, and
\* the label is in the result.
C2_Witness ==
    /\ pc = "evaluated"
    /\ \E a, b \in 1..Len(action_rules) :
        /\ a < b
        /\ action_rules[a].action_label = action_rules[b].action_label
        /\ LabelsSatisfyRule(action_rules[a], match_message)
        /\ LabelsSatisfyRule(action_rules[b], match_message)
        /\ Contains(action_labels, action_rules[a].action_label)

\* C7: with A superseding B and B superseding C, raw labels [A, B, C]
\* resolve to exactly [A].
C7_ChainResolvesToHead ==
    (/\ pc = "evaluated"
     /\ actions = ChainActions
     /\ \A n \in 1..Len(action_rules) :
            LabelsSatisfyRule(action_rules[n], match_message)
     /\ RawActionLabels(match_message) = <<"A", "B", "C">>)
        => action_labels = <<"A">>

\* C9: the resolved labels are a subsequence of the raw labels, and a raw
\* label that no label of the resolved list supersedes is in the resolved
\* list.
C9_ResolveOnlyRemovesSuperseded ==
    pc = "evaluated" =>
        LET raw == RawActionLabels(match_message) IN
        /\ IsSubsequence(action_labels, raw)
        /\ \A y \in Range(raw) :
              (~\E x \in Range(action_labels) :
                    x # y /\ y \in SupersededSetOf(x))
                 => Contains(action_labels, y)

\* C9 witness: at least two raw labels were resolved, one of them with no
\* superseding label in the resolved list.
C9_Witness ==
    /\ pc = "evaluated"
    /\ Len(RawActionLabels(match_message)) >= 2
    /\ actions = ChainActions
    /\ \E y \in Range(RawActionLabels(match_message)) :
        /\ ~\E x \in Range(action_labels) : x # y /\ y \in SupersededSetOf(x)
        /\ Contains(action_labels, y)

ExpectedReactionMessages(m) ==
    [n \in 1..Len(ReactionsToSend(m, get_action_labels(m))) |->
        ReactionMessage(m, ReactionsToSend(m, get_action_labels(m))[n])]

\* C3: no message on the reactions queue carries the content key of a
\* record for whose match message the reaction gate evaluates false.
C3_GateFalseNoReactions ==
    \A n \in 1..Len(event) :
        (event[n].valid /\ ~threat_exchange_reacting_is_enabled(event[n]))
            => MessagesOf(reactions_queue, n) = <<>>

\* C3 witness: a record went through the whole pipeline with the gate
\* false, its action messages are out, the reaction resolver has labels for
\* it, and the reactions queue holds nothing.
C3_Witness ==
    \E n \in 1..Len(event) :
        /\ status[n] = "Done"
        /\ ~threat_exchange_reacting_is_enabled(event[n])
        /\ get_threat_exchange_reaction_labels(
              event[n], get_action_labels(event[n])) # <<>>
        /\ MessagesOf(actions_queue, n) # <<>>
        /\ reactions_queue = <<>>

\* C4: when an invocation ends and no publish failed, every record of the
\* batch that parses has all its action and reaction messages published,
\* whichever other records of the batch failed to parse.
C4_ParseFailureIsolated ==
    (Ended /\ result \in {"evaluation_completed:true", "MalformedInput"}) =>
        \A n \in 1..Len(event) :
            event[n].valid =>
                /\ MessagesOf(actions_queue, n) =
                      ExpectedActionMessages(event[n])
                /\ MessagesOf(reactions_queue, n) =
                      ExpectedReactionMessages(event[n])

\* C5: when an invocation of a batch of well-formed records ends, every
\* message of every record is published except those whose send failed.
C5_PublishFailureIsolated ==
    (Ended /\ result \in {"evaluation_completed:true", "PublishFailure"}
           /\ \A n \in 1..Len(event) : event[n].valid) =>
        \A n \in 1..Len(event) :
            /\ \A msg \in Range(ExpectedActionMessages(event[n])) :
                  <<n, "actions", msg.label>> \notin failed_sends
                      => Contains(actions_queue, msg)
            /\ \A msg \in Range(ExpectedReactionMessages(event[n])) :
                  <<n, "reactions", msg.label>> \notin failed_sends
                      => Contains(reactions_queue, msg)

\* C6: batches of different outcome classes (every record succeeded, some
\* succeeded and some failed, every record failed) never end with the same
\* summary.
C6_SummaryDistinguishesOutcomes ==
    \A p, q \in summaries : p[1] # q[1] => p[2] # q[2]

\* C8: once a record's labels are resolved, a raw label listed by another
\* raw label's Action is not among the resolved labels, and no ActionMessage
\* of the record carries it.
C8_SupersededLabelRemoved ==
    pc \in {"actions", "reactions"} =>
        \A x, y \in Range(RawActionLabels(match_message)) :
            (x # y /\ y \in SupersededSetOf(x)) =>
                /\ ~Contains(action_labels, y)
                /\ ~Contains(actions_queue, ActionMessage(match_message, y))

\* C10: a record whose gate has been evaluated has all its action messages
\* published, and a record with a reaction message published has had its
\* gate evaluated.
C10_ActionsBeforeGateBeforeReactions ==
    \A n \in 1..Len(event) :
        /\ n \in gate_checked =>
              MessagesOf(actions_queue, n) = ExpectedActionMessages(event[n])
        /\ MessagesOf(reactions_queue, n) # <<>> => n \in gate_checked

\* C10 witness: a record with two action labels has had its gate evaluated
\* and a reaction message published.
C10_Witness ==
    \E n \in 1..Len(event) :
        /\ n \in gate_checked
        /\ Len(MessagesOf(actions_queue, n)) >= 2
        /\ MessagesOf(reactions_queue, n) # <<>>

(***************************************************************************)
(* C11 - C20                                                               *)
(***************************************************************************)

\* C11: for a record processed without failure, the actions queue holds one
\* ActionMessage per resolved label of the record, in the order of the
\* resolved list, each with the record's content key and that label.
C11_OneActionMessagePerLabel ==
    \A n \in 1..Len(event) :
        status[n] = "Done" =>
            LET sent == MessagesOf(actions_queue, n)
                labels == get_action_labels(event[n])
            IN /\ Len(sent) = Len(labels)
               /\ \A a \in 1..Len(labels) :
                    /\ sent[a].kind = "ActionMessage"
                    /\ sent[a].content_key = event[n].content_key
                    /\ sent[a].label = labels[a]

\* C11 witness: a record with two resolved labels is Done and its two
\* action messages are on the queue.
C11_Witness ==
    \E n \in 1..Len(event) :
        /\ status[n] = "Done"
        /\ Len(get_action_labels(event[n])) = 2
        /\ Len(MessagesOf(actions_queue, n)) = 2

\* C12: while ACTIONS_QUEUE_URL or REACTIONS_QUEUE_URL is not set, no
\* invocation processes a record or publishes a message: the config is never
\* cached, every record stays Received and both queues stay empty.
C12_MissingLocatorIsFatal ==
    ~(RequiredEnviron \subseteq environ) =>
        /\ config = "none"
        /\ pc \in {"idle", "raised"}
        /\ result \in {"none", "KeyError"}
        /\ actions_queue = <<>>
        /\ reactions_queue = <<>>
        /\ \A n \in 1..Len(event) : status[n] = "Received"

\* C12 witness: with one locator set and the other missing, an invocation
\* of a batch holding a well-formed record has raised KeyError.
C12_Witness ==
    /\ Cardinality(environ) = 1
    /\ pc = "raised"
    /\ result = "KeyError"
    /\ \E n \in 1..Len(event) : event[n].valid

\* position of label l in the sequence s that holds it
IndexOf(s, l) == CHOOSE a \in 1..Len(s) : s[a] = l /\ \A b \in 1..(a - 1) : s[b] # l

\* the rules carrying label l whose labels the match satisfies
ApplicableRulesFor(l, m) ==
    {n \in 1..Len(action_rules) :
        /\ action_rules[n].action_label = l
        /\ LabelsSatisfyRule(action_rules[n], m)}

FirstApplicableRuleFor(l, m) ==
    CHOOSE n \in ApplicableRulesFor(l, m) :
        \A o \in ApplicableRulesFor(l, m) : n <= o

\* C14: when two raw labels each list the other in their Action, the
\* resolved list keeps the one with the lower priority number and drops the
\* other.
C14_MutualSupersessionKeepsLowerPriority ==
    (/\ pc = "evaluated"
     /\ actions = MutualActions
     /\ \A n \in 1..Len(action_rules) :
            LabelsSatisfyRule(action_rules[n], match_message)
     /\ {"A", "B"} \subseteq Range(RawActionLabels(match_message)))
        => /\ Contains(action_labels, "A")
           /\ ~Contains(action_labels, "B")

\* C15: an empty rule list gives an empty result, and two labels of the
\* result that each have a rule the match satisfies stand in the order of
\* their first such rules.
C15_FirstSeenOrder ==
    pc = "evaluated" =>
        /\ action_rules = <<>> => action_labels = <<>>
        /\ \A l1, l2 \in Range(action_labels) :
              (/\ l1 # l2
               /\ ApplicableRulesFor(l1, match_message) # {}
               /\ ApplicableRulesFor(l2, match_message) # {})
                 => (IndexOf(action_labels, l1) < IndexOf(action_labels, l2)
                       <=> FirstApplicableRuleFor(l1, match_message)
                             < FirstApplicableRuleFor(l2, match_message))

\* C16: when an invocation that got its config ends, every record of the
\* batch is Done or Failed: none is left Received.
C16_EveryRecordTerminal ==
    (Ended /\ result # "KeyError") =>
        \A n \in 1..Len(event) : status[n] \in {"Done", "Failed"}

\* every message of record n is on its queue
FullyPublished(n) ==
    /\ MessagesOf(actions_queue, n) = ExpectedActionMessages(event[n])
    /\ MessagesOf(reactions_queue, n) = ExpectedReactionMessages(event[n])

\* C17: when a send has failed, the queues still hold every message of the
\* earlier records and every message of the failing record that was sent
\* before the failing one.
C17_NothingRolledBack ==
    (pc = "raised" /\ result = "PublishFailure") =>
        /\ \A n \in 1..(i - 1) : FullyPublished(n)
        /\ \A f \in failed_sends :
              IF f[2] = "actions"
              THEN /\ MessagesOf(actions_queue, i) =
                         SubSeq(ExpectedActionMessages(event[i]), 1, k - 1)
                   /\ MessagesOf(reactions_queue, i) = <<>>
              ELSE /\ MessagesOf(actions_queue, i) =
                         ExpectedActionMessages(event[i])
                   /\ MessagesOf(reactions_queue, i) =
                         SubSeq(ExpectedReactionMessages(event[i]), 1, r - 1)

\* C17 witness: the send of the second action message of the second record
\* failed; the first record's messages and the second record's first action
\* message are on the queues.
C17_Witness ==
    /\ pc = "raised"
    /\ result = "PublishFailure"
    /\ i = 2
    /\ k = 2
    /\ Len(action_labels) = 2
    /\ <<2, "actions", action_labels[2]>> \in failed_sends
    /\ MessagesOf(actions_queue, 1) # <<>>
    /\ MessagesOf(reactions_queue, 1) # <<>>
    /\ Len(MessagesOf(actions_queue, 2)) = 1

NonDecreasingKeys(queue) ==
    \A a, b \in 1..Len(queue) :
        a < b => queue[a].content_key <= queue[b].content_key

\* C18: on each queue the messages stand in batch order of their records,
\* and a record has a message on either queue only when every earlier
\* record is Done with all its messages published.
C18_RecordsInBatchOrder ==
    /\ NonDecreasingKeys(actions_queue)
    /\ NonDecreasingKeys(reactions_queue)
    /\ \A n \in 1..Len(event) :
          (MessagesOf(actions_queue, n) # <<>>
             \/ MessagesOf(reactions_queue, n) # <<>>)
            => \A m \in 1..(n - 1) : status[m] = "Done" /\ FullyPublished(m)

\* C18 witness: two records have both their action and reaction messages
\* on the queues.
C18_Witness ==
    /\ Len(event) = 2
    /\ \A n \in 1..2 :
          /\ MessagesOf(actions_queue, n) # <<>>
          /\ MessagesOf(reactions_queue, n) # <<>>

\* C19: the actions queue holds ActionMessages only, the reactions queue
\* ReactionMessages only, and a record that is Done with the gate true has
\* as many messages on the reactions queue as the reaction resolver returns
\* labels.
C19_QueueSeparation ==
    /\ \A msg \in Range(actions_queue) : msg.kind = "ActionMessage"
    /\ \A msg \in Range(reactions_queue) : msg.kind = "ReactionMessage"
    /\ \A n \in 1..Len(event) :
          (status[n] = "Done" /\ threat_exchange_reacting_is_enabled(event[n]))
            => Len(MessagesOf(reactions_queue, n)) =
                  Len(get_threat_exchange_reaction_labels(
                         event[n], get_action_labels(event[n])))

\* C19 witness: a record is Done with the gate true, with two action
\* messages and one reaction message.
C19_Witness ==
    \E n \in 1..Len(event) :
        /\ status[n] = "Done"
        /\ threat_exchange_reacting_is_enabled(event[n])
        /\ Len(MessagesOf(actions_queue, n)) = 2
        /\ Len(MessagesOf(reactions_queue, n)) = 1

(***************************************************************************)
(* SpecOpinion: get_signal_details on one stored signal                    *)
(***************************************************************************)
TagSet == {TRUE_POSITIVE, FALSE_POSITIVE, DISPUTED, "other_tag"}

InitOpinion ==
    /\ environ = RequiredEnviron
    /\ action_rules = SampleActionRules
    /\ actions = SampleActions
    /\ reacting_enabled = TRUE
    /\ Idle
    /\ tags \in SeqsUpTo(TagSet, MaxTags)
    /\ detail = NoDetail
    /\ pc = "signal_details"

\* lines 102-116: the metadata of the signal becomes a MatchDetailMetadata
GetSignalDetails ==
    /\ pc = "signal_details"
    /\ detail' = MatchDetailMetadata(tags)
    /\ pc' = "signal_details_done"
    /\ UNCHANGED <<environ, config, action_rules, actions, reacting_enabled,
                   event, i, match_message, action_labels, k,
                   reaction_labels, r, actions_queue, reactions_queue,
                   result, status, gate_checked, failed_sends, summaries,
                   tags>>

NextOpinion == GetSignalDetails

SpecOpinion == InitOpinion /\ [][NextOpinion]_vars

\* C20: the opinion of a signal is True Positive when its tags hold the
\* true-positive tag; else False Positive when they hold the false-positive
\* tag; else Unknown (Disputed) when they hold the disputed tag; else
\* Unknown, wherever the tags stand in the list.
C20_OpinionPrecedence ==
    pc = "signal_details_done" =>
        LET present == Range(tags) IN
        /\ TRUE_POSITIVE \in present => detail.opinion = "True Positive"
        /\ (TRUE_POSITIVE \notin present /\ FALSE_POSITIVE \in present)
              => detail.opinion = "False Positive"
        /\ (present \cap {TRUE_POSITIVE, FALSE_POSITIVE} = {}
              /\ DISPUTED \in present)
              => detail.opinion = "Unknown (Disputed)"
        /\ present \cap {TRUE_POSITIVE, FALSE_POSITIVE, DISPUTED} = {}
              => detail.opinion = "Unknown"

\* C20 witness: the tags hold the disputed, the false-positive and then the
\* true-positive tag, and the opinion is True Positive.
C20_Witness ==
    /\ pc = "signal_details_done"
    /\ tags = <<DISPUTED, FALSE_POSITIVE, TRUE_POSITIVE>>
    /\ detail.opinion = "True Positive"

====
